---- MODULE Spec2Model ----
(***************************************************************************)
(* Model of puch_mcp.py: the three EMS tools symptom_extract,              *)
(* redflags_validate and find_hospital, and the helpers they call.         *)
(*                                                                         *)
(* Representation of Python values                                         *)
(*   None            [t |-> "None"]                                        *)
(*   an int n        [t |-> "int",  v |-> n]                               *)
(*   a str that the code scans (text, a str given where a list is due)     *)
(*                   [t |-> "str",  v |-> <<its characters>>]              *)
(*   a list          [t |-> "list", v |-> <<its items>>]                   *)
(*   a dict          [t |-> "dict", <key> |-> <value>, ...]                *)
(*   a missing key   [t |-> "absent"]                                      *)
(* A str that the code only compares as a whole (a flag name, a phone, a   *)
(* hospital name, a level) is a TLA+ string; a character is the TLA+       *)
(* string of length one, so list("ab") is <<"a", "b">>.                    *)
(***************************************************************************)
EXTENDS Integers, Sequences, FiniteSets

VARIABLES call, ret

vars == <<call, ret>>

(* ------------------------------ bounds -------------------------------- *)

\* Longest text, in fragments of Fragments.
MaxPieces == 3

\* Longest hospitals.json, in entries.
MaxHospitals == 2

(* --------------------------- Python values ---------------------------- *)

None == [t |-> "None"]

Absent == [t |-> "absent"]

PyInt(n) == [t |-> "int", v |-> n]

PyStr(s) == [t |-> "str", v |-> s]

PyList(s) == [t |-> "list", v |-> s]

\* What a call gives back: a value, or the exception it raised.
Return(v) == [err |-> "none", value |-> v]

Raise(e) == [err |-> e]

Range(s) == {s[i] : i \in 1..Len(s)}

(* ----------------------------- characters ----------------------------- *)

UpperCase == <<"A", "B", "C", "D", "E", "F", "G", "H", "I", "J", "K", "L", "M",
               "N", "O", "P", "Q", "R", "S", "T", "U", "V", "W", "X", "Y", "Z">>

LowerCase == <<"a", "b", "c", "d", "e", "f", "g", "h", "i", "j", "k", "l", "m",
               "n", "o", "p", "q", "r", "s", "t", "u", "v", "w", "x", "y", "z">>

Digits == <<"0", "1", "2", "3", "4", "5", "6", "7", "8", "9">>

\* The lower-case letter of each upper-case letter.
LowerOf ==
    [c \in Range(UpperCase) |-> LowerCase[CHOOSE i \in 1..Len(UpperCase) : UpperCase[i] = c]]

\* str.lower() on one character.
LowerChar(c) == IF c \in DOMAIN LowerOf THEN LowerOf[c] ELSE c

\* str.lower()
lower(s) == [i \in 1..Len(s) |-> LowerChar(s[i])]

\* The value of each digit.
ValueOf == [c \in Range(Digits) |-> (CHOOSE i \in 1..Len(Digits) : Digits[i] = c) - 1]

\* \d of the regular expression
IsDigit(c) == c \in DOMAIN ValueOf

DigitValue(c) == ValueOf[c]

WordChars == Range(UpperCase) \cup Range(LowerCase) \cup Range(Digits) \cup {"_"}

\* \w of the regular expression (what \b is defined by)
IsWordChar(c) == c \in WordChars

\* \s of the regular expression, and what str.strip() removes
IsSpace(c) == c \in {" ", "\t", "\n", "\r"}

\* Mutant of strip: nothing is removed (the test becomes "not text").
strip_Nothing(s) == s

\* str.strip(): the text without its leading and trailing whitespace
strip(s) ==
    IF \A i \in 1..Len(s) : IsSpace(s[i]) THEN <<>>
    ELSE LET first == CHOOSE i \in 1..Len(s) :
                          ~IsSpace(s[i]) /\ \A j \in 1..(i - 1) : IsSpace(s[j])
             last  == CHOOSE i \in 1..Len(s) :
                          ~IsSpace(s[i]) /\ \A j \in (i + 1)..Len(s) : IsSpace(s[j])
         IN SubSeq(s, first, last)

\* p in s : p occurs in s as a substring
Contains(s, p) ==
    \E i \in 1..(Len(s) - Len(p) + 1) : SubSeq(s, i, i + Len(p) - 1) = p

(* ------------------------------ _EMS_SYMPTOMS -------------------------- *)

_EMS_SYMPTOMS ==
  <<
    [flag |-> "chest_pain", phrases |-> <<
        <<"c", "h", "e", "s", "t", " ", "p", "a", "i", "n">>,
        <<"p", "r", "e", "s", "s", "u", "r", "e", " ", "i", "n", " ", "c", "h", "e", "s", "t">>,
        <<"t", "i", "g", "h", "t", " ", "c", "h", "e", "s", "t">> >>],
    [flag |-> "breathlessness", phrases |-> <<
        <<"s", "h", "o", "r", "t", " ", "o", "f", " ", "b", "r", "e", "a", "t", "h">>,
        <<"b", "r", "e", "a", "t", "h", "l", "e", "s", "s">>,
        <<"d", "i", "f", "f", "i", "c", "u", "l", "t", "y", " ", "b", "r", "e", "a", "t", "h", "i", "n", "g">> >>],
    [flag |-> "unconscious", phrases |-> <<
        <<"u", "n", "c", "o", "n", "s", "c", "i", "o", "u", "s">>,
        <<"n", "o", "t", " ", "r", "e", "s", "p", "o", "n", "d", "i", "n", "g">>,
        <<"p", "a", "s", "s", "e", "d", " ", "o", "u", "t">>,
        <<"f", "a", "i", "n", "t", "e", "d">> >>],
    [flag |-> "bleeding", phrases |-> <<
        <<"b", "l", "e", "e", "d", "i", "n", "g">>,
        <<"p", "r", "o", "f", "u", "s", "e", " ", "b", "l", "e", "e", "d">>,
        <<"b", "l", "o", "o", "d", " ", "e", "v", "e", "r", "y", "w", "h", "e", "r", "e">> >>],
    [flag |-> "seizure", phrases |-> <<
        <<"s", "e", "i", "z", "u", "r", "e">>,
        <<"f", "i", "t", "t", "i", "n", "g">>,
        <<"c", "o", "n", "v", "u", "l", "s", "i", "o", "n">> >>],
    [flag |-> "stroke_signs", phrases |-> <<
        <<"f", "a", "c", "e", " ", "d", "r", "o", "o", "p">>,
        <<"a", "r", "m", " ", "w", "e", "a", "k", "n", "e", "s", "s">>,
        <<"s", "l", "u", "r", "r", "e", "d", " ", "s", "p", "e", "e", "c", "h">>,
        <<"s", "t", "r", "o", "k", "e">> >>],
    [flag |-> "fever", phrases |-> <<
        <<"f", "e", "v", "e", "r">>,
        <<"t", "e", "m", "p", "e", "r", "a", "t", "u", "r", "e">>,
        <<"h", "i", "g", "h", " ", "t", "e", "m", "p">>,
        <<"p", "y", "r", "e", "x", "i", "a">> >>],
    [flag |-> "pain", phrases |-> <<
        <<"p", "a", "i", "n">>,
        <<"a", "c", "h", "e">>,
        <<"h", "u", "r", "t", "s">> >>]
  >>

\* The order sorted() gives the dictionary's keys (plain string order).
SortedFlagNames ==
    <<"bleeding", "breathlessness", "chest_pain", "fever", "pain", "seizure",
      "stroke_signs", "unconscious">>

(* -------------------------------- _AGE_RX ------------------------------ *)

\* (?:y|yr|yrs|years?) ; under re.I the letters match in either case.
AgeUnits ==
    { <<"y">>, <<"y", "r">>, <<"y", "r", "s">>, <<"y", "e", "a", "r">>,
      <<"y", "e", "a", "r", "s">> }

\* Whether position i of s (1..Len(s)) holds a word character.
WordAt(s, i) == i >= 1 /\ i <= Len(s) /\ IsWordChar(s[i])

\* \b between the characters i-1 and i of s.
WordBoundary(s, i) == WordAt(s, i - 1) # WordAt(s, i)

\* The numbers k of digits (1..3) with which the pattern matches s from i:
\* \b, k digits, any whitespace, a unit, \b.
AgeMatchAt(s, i) ==
    { k \in 1..3 :
        /\ WordBoundary(s, i)
        /\ i + k - 1 <= Len(s)
        /\ \A j \in i..(i + k - 1) : IsDigit(s[j])
        /\ \E w \in 0..(Len(s) - (i + k - 1)) :
              /\ \A j \in (i + k)..(i + k + w - 1) : IsSpace(s[j])
              /\ \E u \in AgeUnits :
                    /\ i + k + w + Len(u) - 1 <= Len(s)
                    /\ \A j \in 1..Len(u) : LowerChar(s[i + k + w + j - 1]) = u[j]
                    /\ WordBoundary(s, i + k + w + Len(u)) }

\* _AGE_RX.search(s): the digits of group 1 of the leftmost match (\d{1,3} is
\* greedy: the longest run of digits that lets the rest match), or <<>> when
\* nothing matches.
AgeSearch(s) ==
    LET starts == {i \in 1..Len(s) : AgeMatchAt(s, i) # {}}
    IN IF starts = {} THEN <<>>
       ELSE LET i == CHOOSE x \in starts : \A y \in starts : x <= y
                k == CHOOSE x \in AgeMatchAt(s, i) : \A y \in AgeMatchAt(s, i) : y <= x
            IN SubSeq(s, i, i + k - 1)

\* int() of a string of digits
RECURSIVE int(_)
int(d) == IF d = <<>> THEN 0
          ELSE 10 * int(SubSeq(d, 1, Len(d) - 1)) + DigitValue(d[Len(d)])

(* ------------------------------ the helpers ---------------------------- *)

\* _extract_age(text): None without a match; the number when it is in 0..120;
\* and, past the if, the final "return age" gives the number as well.
_extract_age(text) ==
    LET m == AgeSearch(text)
    IN IF m = <<>> THEN None
       ELSE LET age == int(m)
            IN IF 0 <= age /\ age <= 120 THEN PyInt(age)
               ELSE PyInt(age)

\* Mutant of _flags_from_text: the text is not lower-cased before the search.
_flags_from_text_CaseSensitive(text) ==
    LET found == { _EMS_SYMPTOMS[c].flag : c \in
                     { c \in 1..Len(_EMS_SYMPTOMS) :
                         \E p \in 1..Len(_EMS_SYMPTOMS[c].phrases) :
                             Contains(text, _EMS_SYMPTOMS[c].phrases[p]) } }
    IN SelectSeq(SortedFlagNames, LAMBDA n : n \in found)

\* _flags_from_text(text): the sorted names of the categories one of whose
\* phrases occurs in the lower-cased text.
_flags_from_text(text) ==
    LET low   == lower(text)
        found == { _EMS_SYMPTOMS[c].flag : c \in
                     { c \in 1..Len(_EMS_SYMPTOMS) :
                         \E p \in 1..Len(_EMS_SYMPTOMS[c].phrases) :
                             Contains(low, _EMS_SYMPTOMS[c].phrases[p]) } }
    IN SelectSeq(SortedFlagNames, LAMBDA n : n \in found)

(* -------------------------------- tools -------------------------------- *)

\* Mutant of symptom_extract_tool: "age_years or _extract_age(text)", which
\* drops a hint of 0.
symptom_extract_tool_HintOr(text, age_years) ==
    IF text.t # "str" \/ strip(text.v) = <<>>
    THEN Raise("McpError(INVALID_PARAMS)")
    ELSE LET age   == IF age_years # None /\ age_years.v # 0 THEN age_years
                      ELSE _extract_age(text.v)
             flags == _flags_from_text(text.v)
         IN Return([t |-> "dict", age_years |-> age, free_text |-> text,
                    flags |-> PyList(flags), symptoms |-> PyList(flags)])

\* symptom_extract_tool(text, age_years)
symptom_extract_tool(text, age_years) ==
    IF text.t # "str" \/ strip(text.v) = <<>>
    THEN Raise("McpError(INVALID_PARAMS)")
    ELSE LET age   == IF age_years # None THEN age_years ELSE _extract_age(text.v)
             flags == _flags_from_text(text.v)
         IN Return([t |-> "dict", age_years |-> age, free_text |-> text,
                    flags |-> PyList(flags), symptoms |-> PyList(flags)])

\* Mutant of _level_from_flags: the ALS test comes before the Critical test.
_level_from_flags_AlsFirst(flags, age) ==
    LET critical == {"unconscious", "bleeding"}
        als      == {"chest_pain", "breathlessness", "seizure", "stroke_signs"}
        f        == Range(flags)
    IN IF f \cap als # {} THEN "ALS"
       ELSE IF f \cap critical # {} THEN "Critical"
       ELSE IF age # None /\ (age.v < 12 \/ age.v > 75) /\ f # {} THEN "ALS"
       ELSE IF f # {} THEN "BLS"
       ELSE "General"

\* Mutant of _level_from_flags: the age test lacks "and f".
_level_from_flags_AgeAlone(flags, age) ==
    LET critical == {"unconscious", "bleeding"}
        als      == {"chest_pain", "breathlessness", "seizure", "stroke_signs"}
        f        == Range(flags)
    IN IF f \cap critical # {} THEN "Critical"
       ELSE IF f \cap als # {} THEN "ALS"
       ELSE IF age # None /\ (age.v < 12 \/ age.v > 75) THEN "ALS"
       ELSE IF f # {} THEN "BLS"
       ELSE "General"

\* _level_from_flags(flags, age): flags is a list, age an int or None.
_level_from_flags(flags, age) ==
    LET critical == {"unconscious", "bleeding"}
        als      == {"chest_pain", "breathlessness", "seizure", "stroke_signs"}
        f        == Range(flags)
    IN IF f \cap critical # {} THEN "Critical"
       ELSE IF f \cap als # {} THEN "ALS"
       ELSE IF age # None /\ (age.v < 12 \/ age.v > 75) /\ f # {} THEN "ALS"
       ELSE IF f # {} THEN "BLS"
       ELSE "General"

\* list(x): the items of a list, the characters of a str; TypeError for what
\* cannot be iterated (None, an int).
list(x) ==
    CASE x.t = "list" -> Return(x.v)
      [] x.t = "str"  -> Return(x.v)
      [] OTHER        -> Raise("TypeError")

\* d.get(key) and d.get(key, default), given the value stored under the key.
Get(v, default) == IF v = Absent THEN default ELSE v

\* _redflags_core(structured), which redflags_validate returns as it is.
_redflags_core(structured) ==
    IF structured.t # "dict"
    THEN Raise("McpError(INVALID_PARAMS)")
    ELSE LET l == list(Get(structured.flags, PyList(<<>>)))
         IN IF l.err # "none" THEN l
            ELSE LET flags == l.value
                     age   == Get(structured.age_years, None)
                     level == _level_from_flags(flags, age)
                 IN Return([t |-> "dict", level_of_care |-> level,
                            flags |-> PyList(flags), age_years |-> age])

\* bool(x)
Truthy(x) ==
    CASE x.t = "None" -> FALSE
      [] x.t = "str"  -> x.v # <<>>
      [] x.t = "int"  -> x.v # 0
      [] OTHER        -> TRUE

\* a or b
PyOr(a, b) == IF Truthy(a) THEN a ELSE b

\* 4 * sin(radians(d) / 2) ** 2, for the angles d between two points of Grid.
Sin2Half(d) == CASE d = 0 -> 0 [] d = 60 -> 1 [] d = 90 -> 2

\* 2 * cos(radians(lat)), for the latitudes of Grid.
Cos(lat) == CASE lat = 0 -> 2 [] lat = 60 -> 1

\* R * 2 * atan2(sqrt(a), sqrt(1 - a)) with R = 6371 and a = n / 16, in units of
\* 0.0001 km, cut to an integer: the values the float arithmetic gives.
Arc(n) ==
    CASE n = 0 -> 0
      [] n = 2 -> 46045398
      [] n = 4 -> 66716955
      [] n = 8 -> 100075433

Abs(x) == IF x < 0 THEN -x ELSE x

\* distance(lat1, lon1, lat2, lon2) of find_hospital_tool, in units of 0.0001 km.
\* Between points of Grid the float result is the same for, and ordered as, the
\* exact value 16 * a of the haversine term.
distance(lat1, lon1, lat2, lon2) ==
    LET dlat == Abs(lat2 - lat1)
        dlon == Abs(lon2 - lon1)
        a    == 4 * Sin2Half(dlat) + Cos(lat1) * Cos(lat2) * Sin2Half(dlon)
    IN Arc(a)

\* round(x, 2), from units of 0.0001 km to units of 0.01 km (no value of Arc
\* lies halfway).
round2(x) == (x + 50) \div 100

\* Mutant of MinScan: an equal key replaces the item held (the last of the
\* nearest wins).
RECURSIVE MinScan_LastWins(_, _, _)
MinScan_LastWins(keys, i, best) ==
    IF i > Len(keys) THEN best
    ELSE MinScan_LastWins(keys, i + 1, IF keys[i] <= keys[best] THEN i ELSE best)

\* min(items, key = ...) over the keys of the items, as an index: the scan
\* keeps the item it holds unless the next one is strictly smaller.
RECURSIVE MinScan(_, _, _)
MinScan(keys, i, best) ==
    IF i > Len(keys) THEN best
    ELSE MinScan(keys, i + 1, IF keys[i] < keys[best] THEN i ELSE best)

min(keys) == MinScan(keys, 2, 1)

\* Mutant of PhoneOf: the two fields are swapped.
PhoneOf_PhoneFirst(nearest) ==
    PyOr(Get(nearest.phone, None), Get(nearest.ambulance_phone, None))

\* nearest.get("ambulance_phone") or nearest.get("phone")
PhoneOf(nearest) == PyOr(Get(nearest.ambulance_phone, None), Get(nearest.phone, None))

\* find_hospital_tool(severity, lat, lng), hospitals being what hospitals.json
\* holds; min() of an empty list raises ValueError.
find_hospital_tool(severity, lat, lng, hospitals) ==
    IF hospitals = <<>>
    THEN Raise("ValueError")
    ELSE LET keys    == [i \in 1..Len(hospitals) |->
                            distance(lat, lng, hospitals[i].lat, hospitals[i].lng)]
             nearest == hospitals[min(keys)]
         IN Return([t |-> "dict", nearest_hospital |-> nearest.name,
                    phone |-> PhoneOf(nearest),
                    distance_km |-> round2(distance(lat, lng, nearest.lat, nearest.lng))])

(* ------------------------------- inputs -------------------------------- *)

Fragments ==
    { <<"U", "n", "c", "o", "n", "s", "c", "i", "o", "u", "s">>,
      <<"B", "L", "E", "E", "D", "I", "N", "G">>,
      <<"c", "h", "e", "s", "t", " ", "p", "a", "i", "n">>,
      <<"f", "e", "v", "e", "r">>,
      <<" ">>,
      <<"x">>,
      <<"8">>,
      <<"1", "5", "0">>,
      <<"Y", "r", "s">> }

RECURSIVE Concat(_)
Concat(ps) == IF ps = <<>> THEN <<>> ELSE Head(ps) \o Concat(Tail(ps))

Strings == { Concat(ps) : ps \in UNION { [1..n -> Fragments] : n \in 0..MaxPieces } }

\* What a caller may pass as text: a str, or something that is not one.
Texts == { PyStr(s) : s \in Strings } \cup { None, PyInt(7) }

\* What a caller may pass as age_years.
Hints == { None, PyInt(0), PyInt(40), PyInt(150) }

\* Flag names a caller may pass: the dictionary's and one it does not know.
FlagNames ==
    <<"chest_pain", "breathlessness", "unconscious", "bleeding", "seizure",
      "stroke_signs", "fever", "pain", "rash">>

\* What a caller may pass as age_years of structured.
Ages == { Absent, None, PyInt(0), PyInt(11), PyInt(12), PyInt(40), PyInt(75),
          PyInt(76), PyInt(150) }

\* What a caller may pass as flags of structured: lists of flag names, and
\* values that are no list.
FlagValues ==
    { PyList(SelectSeq(FlagNames, LAMBDA n : n \in S)) : S \in SUBSET Range(FlagNames) }
    \cup { Absent, None, PyInt(5), PyStr(<<>>), PyStr(<<"f", "e", "v", "e", "r">>) }

\* What a caller may pass as structured.
Structureds ==
    { [t |-> "dict", flags |-> f, age_years |-> a] : f \in FlagValues, a \in Ages }
    \cup { None, PyStr(<<"x">>) }

Grid == { <<0, 0>>, <<0, 90>>, <<60, 0>>, <<60, 90>> }

Severities == { "General", "Critical" }

\* The (ambulance_phone, phone) pairs of a hospitals.json entry.
PhonePairs ==
    { <<a, p>> : a \in { Absent, PyStr(<<>>), PyStr(<<"1", "0", "8">>) },
                 p \in { Absent, PyStr(<<"0", "4", "4">>) } }

HospitalNames == <<"H1", "H2", "H3", "H4">>

\* What hospitals.json may hold: up to MaxHospitals entries, named by position.
Registries ==
    UNION { { [i \in 1..n |-> [t |-> "dict", name |-> HospitalNames[i],
                               lat |-> at[i][1], lng |-> at[i][2],
                               ambulance_phone |-> ph[i][1], phone |-> ph[i][2]]] :
                at \in [1..n -> Grid], ph \in [1..n -> PhonePairs] } :
            n \in 0..MaxHospitals }

(* ------------------------------- actions ------------------------------- *)

Init ==
    /\ call = [op |-> "none"]
    /\ ret = Return(None)

\* A request for symptom_extract arrives and is handled.
SymptomExtract ==
    /\ call.op = "none"
    /\ \E text \in Texts, age_years \in Hints :
        /\ call' = [op |-> "symptom_extract", text |-> text, age_years |-> age_years]
        /\ ret' = symptom_extract_tool(text, age_years)

\* A request for redflags_validate arrives and is handled.
RedflagsValidate ==
    /\ call.op = "none"
    /\ \E structured \in Structureds :
        /\ call' = [op |-> "redflags_validate", structured |-> structured,
                    piped |-> FALSE]
        /\ ret' = _redflags_core(structured)

\* The caller passes what symptom_extract returned on to redflags_validate.
RedflagsValidatePiped ==
    /\ call.op = "symptom_extract"
    /\ ret.err = "none"
    /\ call' = [op |-> "redflags_validate", structured |-> ret.value, piped |-> TRUE]
    /\ ret' = _redflags_core(ret.value)

\* A request for find_hospital arrives and is handled.
FindHospital ==
    /\ call.op = "none"
    /\ \E severity \in Severities, at \in Grid, hospitals \in Registries :
        /\ call' = [op |-> "find_hospital", severity |-> severity, lat |-> at[1],
                    lng |-> at[2], hospitals |-> hospitals]
        /\ ret' = find_hospital_tool(severity, at[1], at[2], hospitals)

\* The response has been sent; nothing of the call is kept.
Respond ==
    /\ call.op # "none"
    /\ call' = [op |-> "none"]
    /\ ret' = Return(None)

Next ==
    \/ SymptomExtract
    \/ RedflagsValidate
    \/ RedflagsValidatePiped
    \/ FindHospital
    \/ Respond

Spec == Init /\ [][Next]_vars


(* ------------------------------- claims -------------------------------- *)

\* The set of flags and the age a redflags_validate call was given.
CallFlags == Range(Get(call.structured.flags, PyList(<<>>)).v)

CallAge == Get(call.structured.age_years, None)

\* The call is redflags_validate with a dict whose flags are a list (or missing).
WellFormedClassify ==
    /\ call.op = "redflags_validate"
    /\ call.structured.t = "dict"
    /\ Get(call.structured.flags, PyList(<<>>)).t = "list"

\* The level the rules of the specification give, first match first.
RuleLevel(f, age) ==
    CASE f \cap {"unconscious", "bleeding"} # {} -> "Critical"
      [] /\ f \cap {"unconscious", "bleeding"} = {}
         /\ f \cap {"chest_pain", "breathlessness", "seizure", "stroke_signs"} # {} -> "ALS"
      [] OTHER ->
           IF age.t = "int" /\ (age.v < 12 \/ age.v > 75) /\ f # {} THEN "ALS"
           ELSE IF f # {} THEN "BLS"
           ELSE "General"

\* C1: for every list of flags and every age (None included) classify returns,
\* and the level is the one the first matching rule gives: Critical, ALS by
\* flag, ALS by age with some flag, BLS, General.
C1_FirstMatchingRule ==
    WellFormedClassify =>
        /\ ret.err = "none"
        /\ ret.value.level_of_care \in {"General", "BLS", "ALS", "Critical"}
        /\ ret.value.level_of_care = RuleLevel(CallFlags, CallAge)

\* C1's case: the age rule decides (a flag outside both sets, an age above 75).
C1_Witness ==
    /\ WellFormedClassify
    /\ CallFlags = {"fever"}
    /\ CallAge = PyInt(76)
    /\ ret.err = "none"
    /\ ret.value.level_of_care = "ALS"

Unconscious == <<"u", "n", "c", "o", "n", "s", "c", "i", "o", "u", "s">>

Bleeding == <<"b", "l", "e", "e", "d", "i", "n", "g">>

\* The text of the call holds the word in some letter case.
HoldsAnyCase(text, word) ==
    \E i \in 1..(Len(text) - Len(word) + 1) :
        \A j \in 1..Len(word) : LowerChar(text[i + j - 1]) = word[j]

\* redflags_validate was given what symptom_extract returned.
Pipeline == call.op = "redflags_validate" /\ call.piped

\* C2: when the text holds "unconscious" or "bleeding" in any letter case,
\* extract followed by classify gives Critical, whatever else the text holds
\* and whatever the age.
C2_CriticalWins ==
    (/\ Pipeline
     /\ \/ HoldsAnyCase(call.structured.free_text.v, Unconscious)
        \/ HoldsAnyCase(call.structured.free_text.v, Bleeding)) =>
        /\ ret.err = "none"
        /\ ret.value.level_of_care = "Critical"

\* C2's case: upper-case BLEEDING beside an ALS phrase, with an age.
C2_Witness ==
    /\ Pipeline
    /\ HoldsAnyCase(call.structured.free_text.v, Bleeding)
    /\ ~Contains(call.structured.free_text.v, Bleeding)
    /\ "chest_pain" \in CallFlags
    /\ CallAge # None
    /\ ret.value.level_of_care = "Critical"

\* C3: without a hint, the age extract returns is None or within 0..120.
C3_ParsedAgeInRange ==
    (/\ call.op = "symptom_extract"
     /\ call.age_years = None
     /\ ret.err = "none") =>
        \/ ret.value.age_years = None
        \/ (ret.value.age_years.v >= 0 /\ ret.value.age_years.v <= 120)

\* C4: with a hint, the age returned is the hint as given, whatever the text
\* holds; without one it is what the scan of the text gives.
C4_HintVerbatim ==
    (call.op = "symptom_extract" /\ ret.err = "none") =>
        /\ call.age_years # None => ret.value.age_years = call.age_years
        /\ call.age_years = None => ret.value.age_years = _extract_age(call.text.v)

\* C4's case: a hint of 0 and a text with an age expression of its own.
C4_Witness ==
    /\ call.op = "symptom_extract"
    /\ call.age_years = PyInt(0)
    /\ ret.err = "none"
    /\ _extract_age(call.text.v) = PyInt(8)
    /\ ret.value.age_years = PyInt(0)

\* C5: find_hospital with an empty hospitals list fails with
\* NoFacilityAvailable.
C5_NoFacilityAvailable ==
    (call.op = "find_hospital" /\ call.hospitals = <<>>) =>
        ret.err = "NoFacilityAvailable"

\* C6: classify fails with invalid-input whenever flags is no list of strings
\* (a str, a number, None), and returns no level.
C6_FlagsTypeChecked ==
    (/\ call.op = "redflags_validate"
     /\ call.structured.t = "dict"
     /\ call.structured.flags.t \in {"str", "int", "None"}) =>
        ret.err = "McpError(INVALID_PARAMS)"

\* The text of a symptom_extract call is no str, or is empty or all whitespace.
BlankText ==
    \/ call.text.t # "str"
    \/ \A i \in 1..Len(call.text.v) : IsSpace(call.text.v[i])

\* C7: extract fails with invalid-input, with no age and no flags computed,
\* when the text is no str, empty or all whitespace; for every other text it
\* returns a record.
C7_TextRequired ==
    call.op = "symptom_extract" =>
        IF BlankText
        THEN ret = Raise("McpError(INVALID_PARAMS)")
        ELSE /\ ret.err = "none"
             /\ ret.value.free_text = call.text
             /\ ret.value.flags.t = "list"

\* C7's case: a text of whitespace only is refused.
C7_Witness ==
    /\ call.op = "symptom_extract"
    /\ call.text.t = "str"
    /\ Len(call.text.v) >= 2
    /\ BlankText
    /\ ret.err = "McpError(INVALID_PARAMS)"

\* The text holds none of the dictionary's phrases, in any letter case.
NoPhrase(text) ==
    \A c \in 1..Len(_EMS_SYMPTOMS) :
        \A p \in 1..Len(_EMS_SYMPTOMS[c].phrases) :
            ~HoldsAnyCase(text, _EMS_SYMPTOMS[c].phrases[p])

\* C8: a text with none of the phrases gives no flag, and classify on no flag
\* gives General at every age.
C8_NoFlagIsGeneral ==
    /\ (/\ call.op = "symptom_extract"
        /\ ret.err = "none"
        /\ NoPhrase(call.text.v)) => ret.value.flags = PyList(<<>>)
    /\ (WellFormedClassify /\ CallFlags = {}) =>
           /\ ret.err = "none"
           /\ ret.value.level_of_care = "General"

\* C8's case: a text without phrases and with an age below 12, classified.
C8_Witness ==
    /\ Pipeline
    /\ NoPhrase(call.structured.free_text.v)
    /\ CallFlags = {}
    /\ CallAge = PyInt(8)
    /\ ret.value.level_of_care = "General"

\* The distance from the query of the call to its i-th hospital.
CallDistance(i) ==
    distance(call.lat, call.lng, call.hospitals[i].lat, call.hospitals[i].lng)

\* The i-th hospital is nearest, and the first of those that are.
FirstNearest(i) ==
    /\ \A j \in 1..Len(call.hospitals) : CallDistance(i) <= CallDistance(j)
    /\ \A j \in 1..(i - 1) : CallDistance(j) > CallDistance(i)

\* C9: with a non-empty list, find_hospital returns a hospital no other is
\* nearer than, the first in the list among the equally near, and the same one
\* for every severity.
C9_FirstNearestWins ==
    (call.op = "find_hospital" /\ call.hospitals # <<>>) =>
        /\ ret.err = "none"
        /\ \E i \in 1..Len(call.hospitals) :
              /\ FirstNearest(i)
              /\ ret.value.nearest_hospital = call.hospitals[i].name
        /\ \A s \in Severities :
              find_hospital_tool(s, call.lat, call.lng, call.hospitals) = ret

\* C9's case: two hospitals at different places, equally near and nearer
\* than nothing else; the first is returned.
C9_Witness ==
    /\ call.op = "find_hospital"
    /\ Len(call.hospitals) = 2
    /\ <<call.hospitals[1].lat, call.hospitals[1].lng>> #
           <<call.hospitals[2].lat, call.hospitals[2].lng>>
    /\ CallDistance(1) = CallDistance(2)
    /\ CallDistance(1) > 0
    /\ ret.value.nearest_hospital = "H1"

\* The hospital of the call that was returned (names are distinct).
Winner ==
    call.hospitals[CHOOSE i \in 1..Len(call.hospitals) :
                       call.hospitals[i].name = ret.value.nearest_hospital]

FoundHospital == call.op = "find_hospital" /\ ret.err = "none"

\* C10 as stated: the phone is the winner's ambulance_phone whenever it has
\* that field, whatever its value; else its phone; else None.
C10_AmbulancePhoneIfPresent ==
    FoundHospital =>
        ret.value.phone =
            IF Winner.ambulance_phone # Absent THEN Winner.ambulance_phone
            ELSE IF Winner.phone # Absent THEN Winner.phone
            ELSE None

\* C10 as amended: the phone is the winner's ambulance_phone when it has that
\* field with a non-empty value; else its phone; else None.
C10_AmbulancePhoneIfNonEmpty ==
    FoundHospital =>
        ret.value.phone =
            IF /\ Winner.ambulance_phone # Absent
               /\ Winner.ambulance_phone # None
               /\ Winner.ambulance_phone.v # <<>>
            THEN Winner.ambulance_phone
            ELSE IF Winner.phone # Absent THEN Winner.phone
            ELSE None

\* C10's case: the winner of two has an empty ambulance_phone and a phone, the
\* other a non-empty ambulance_phone; the winner's phone is returned.
C10_Witness ==
    /\ FoundHospital
    /\ Len(call.hospitals) = 2
    /\ Winner.name = "H2"
    /\ Winner.ambulance_phone = PyStr(<<>>)
    /\ Winner.phone # Absent
    /\ call.hospitals[1].ambulance_phone.t = "str"
    /\ call.hospitals[1].ambulance_phone.v # <<>>
    /\ ret.value.phone = Winner.phone

====
